---- MODULE Spec2Model ----
(***************************************************************************)
(* Model of conv.HttpHeaderConverter (libgo-http): the line classifier     *)
(* goroutine of createSenders, the two receiver goroutines of convert, and *)
(* Output.  Strings are sequences of one-character strings, so that the    *)
(* trimming, the two regular expressions and the key normalisation are     *)
(* computed character by character as the code computes them.              *)
(***************************************************************************)
EXTENDS Integers, Sequences, FiniteSets, TLC

(***************************************************************************)
(* Bounds of the model.                                                    *)
(***************************************************************************)
\* largest number of newline-terminated lines the input stream holds
MaxLines == 3
\* largest channel capacity (numWorker) tried; 0 is the unbuffered channel
MaxWorker == 1

(***************************************************************************)
(* Characters and strings.                                                 *)
(***************************************************************************)
UpperAlpha == <<"A","B","C","D","E","F","G","H","I","J","K","L","M",
                "N","O","P","Q","R","S","T","U","V","W","X","Y","Z">>
LowerAlpha == <<"a","b","c","d","e","f","g","h","i","j","k","l","m",
                "n","o","p","q","r","s","t","u","v","w","x","y","z">>

IsUpper(c) == \E i \in 1..26 : UpperAlpha[i] = c
IsLower(c) == \E i \in 1..26 : LowerAlpha[i] = c
IsCased(c) == IsUpper(c) \/ IsLower(c)
IsDigit(c) == c \in {"0","1","2","3","4","5","6","7","8","9"}
\* unicode.IsSpace and the regexp class \s agree on these characters
IsSpace(c) == c \in {" ", "\t", "\n", "\r", "\f"}

ToLowerCh(c) ==
    IF IsUpper(c) THEN LowerAlpha[CHOOSE i \in 1..26 : UpperAlpha[i] = c] ELSE c
ToUpperCh(c) ==
    IF IsLower(c) THEN UpperAlpha[CHOOSE i \in 1..26 : LowerAlpha[i] = c] ELSE c

\* Op(v) with v evaluated once, before Op is applied to it
Let(v, Op(_)) == CHOOSE r \in {Op(x) : x \in {v}} : TRUE

\* strings.ToLower
ToLower(str) == [i \in 1..Len(str) |-> ToLowerCh(str[i])]

\* strings.TrimRightFunc(l, unicode.IsSpace)
RECURSIVE TrimmedLen(_, _)
TrimmedLen(str, n) ==
    IF n > 0 /\ IsSpace(str[n]) THEN TrimmedLen(str, n - 1) ELSE n
TrimRight(str) == SubSeq(str, 1, TrimmedLen(str, Len(str)))

(***************************************************************************)
(* createJsonKey: replace "-" and "/" by a space, title-case, split at the *)
(* spaces, lower-case the first piece, join the pieces.                    *)
(***************************************************************************)
\* keyReplacer.Replace
keyReplacer(str) ==
    [i \in 1..Len(str) |-> IF str[i] \in {"-", "/"} THEN " " ELSE str[i]]

\* cases.Title(language.Und).String: the first cased letter of a word is
\* upper-cased, the later ones lower-cased; a space ends the word.
RECURSIVE TitleFrom(_, _, _)
TitleFrom(str, i, isMidWord) ==
    IF i > Len(str) THEN <<>>
    ELSE IF IsCased(str[i])
         THEN <<(IF isMidWord THEN ToLowerCh(str[i]) ELSE ToUpperCh(str[i]))>>
              \o TitleFrom(str, i + 1, TRUE)
         ELSE <<str[i]>> \o TitleFrom(str, i + 1, isMidWord /\ str[i] # " ")
Title(str) == TitleFrom(str, 1, FALSE)

\* strings.Split(t, " "): the pieces between the spaces, empty ones included
RECURSIVE SplitFrom(_, _, _)
SplitFrom(str, i, cur) ==
    IF i > Len(str) THEN <<cur>>
    ELSE IF str[i] = " " THEN <<cur>> \o SplitFrom(str, i + 1, <<>>)
    ELSE SplitFrom(str, i + 1, Append(cur, str[i]))
Split(str) == SplitFrom(str, 1, <<>>)

\* strings.Join(tl, "")
RECURSIVE JoinFrom(_, _)
JoinFrom(tl, i) == IF i > Len(tl) THEN <<>> ELSE tl[i] \o JoinFrom(tl, i + 1)
Join(tl) == JoinFrom(tl, 1)

\* as createJsonKey, but without lower-casing the first piece
createJsonKeyKeepsFirst(key) ==
    LET split(t) == Let(Split(t), Join)
        title(t) == Let(Title(t), split)
    IN  Let(keyReplacer(key), title)

createJsonKey(key) ==
    LET lowerFirst(tl) == Join([tl EXCEPT ![1] = ToLower(tl[1])])
        split(t)       == Let(Split(t), lowerFirst)
        title(t)       == Let(Title(t), split)
    IN  Let(keyReplacer(key), title)

(***************************************************************************)
(* pairPattern  ^(?P<key>.+?):\s+(?P<value>.+)$                            *)
(***************************************************************************)
\* key = line[1..i] is a match when ":" and a whitespace follow it and at
\* least one more character is left for the value
PairKeyEnds(line) ==
    {i \in 1..Len(line) :
        /\ i + 3 <= Len(line)
        /\ line[i + 1] = ":"
        /\ IsSpace(line[i + 2])}

Smallest(S) == CHOOSE x \in S : \A y \in S : x <= y
Min(S) == Let(S, Smallest)

\* first position after the whitespace run that starts at p; the greedy \s+
\* gives back one character when the run reaches the end of the line
RECURSIVE SkipSpace(_, _)
SkipSpace(line, p) ==
    IF p < Len(line) /\ IsSpace(line[p]) THEN SkipSpace(line, p + 1) ELSE p

pairPatternMatches(line) == PairKeyEnds(line) # {}
\* the non-greedy key group takes the shortest key
pairKey(line) == SubSeq(line, 1, Min(PairKeyEnds(line)))
pairValue(line) ==
    SubSeq(line, SkipSpace(line, Min(PairKeyEnds(line)) + 2), Len(line))

(***************************************************************************)
(* statusPattern  (?P<code>[0-9]{3})\s(?P<message>.+)$   (not anchored at  *)
(* the start: the leftmost match in the line is taken)                     *)
(***************************************************************************)
StatusStarts(line) ==
    {i \in 1..Len(line) :
        /\ i + 4 <= Len(line)
        /\ IsDigit(line[i]) /\ IsDigit(line[i + 1]) /\ IsDigit(line[i + 2])
        /\ IsSpace(line[i + 3])}

statusPatternMatches(line) == StatusStarts(line) # {}
statusCode(line) ==
    LET code(i) == SubSeq(line, i, i + 2) IN Let(Min(StatusStarts(line)), code)

(***************************************************************************)
(* parseStatus and parsePair: the error result and the record they send.   *)
(***************************************************************************)
CodeKey == <<"c","o","d","e">>
RawKey  == <<"r","a","w">>

\* parseStatus (JsonFormat): err, or the record {"code", code}
parseStatus(line) ==
    IF ~statusPatternMatches(line)
    THEN [err |-> TRUE,  kv |-> <<>>]
    ELSE [err |-> FALSE, kv |-> <<CodeKey, statusCode(line)>>]

\* as parsePair, but without the test of the first character
parsePairAnyStart(line) ==
    IF ~pairPatternMatches(line)
    THEN [err |-> TRUE, kv |-> <<>>]
    ELSE [err |-> FALSE, kv |-> <<createJsonKey(pairKey(line)), pairValue(line)>>]

\* parsePair (JsonFormat): err, or the record {createJsonKey(key), value}
parsePair(line) ==
    IF line[1] = " "
    THEN [err |-> TRUE, kv |-> <<>>]
    ELSE IF ~pairPatternMatches(line)
    THEN [err |-> TRUE, kv |-> <<>>]
    ELSE [err |-> FALSE, kv |-> <<createJsonKey(pairKey(line)), pairValue(line)>>]

\* as ClassifyTrimmed, but retaining lines of 2 characters and more
ClassifyTrimmedKeepsShort(l, first) ==
    IF Len(l) < 2
    THEN [to |-> "drop", rec |-> <<>>, by |-> "none", f |-> first]
    ELSE IF first /\ ~parseStatus(l).err
    THEN [to |-> "converted", rec |-> parseStatus(l).kv,
          by |-> "parseStatus", f |-> FALSE]
    ELSE IF ~parsePair(l).err
    THEN [to |-> "converted", rec |-> parsePair(l).kv,
          by |-> "parsePair", f |-> FALSE]
    ELSE [to |-> "notConverted", rec |-> <<l>>, by |-> "none", f |-> FALSE]

\* as ClassifyTrimmed, but clearing f only when the status line was found
ClassifyTrimmedRetriesStatus(l, first) ==
    IF Len(l) < 4
    THEN [to |-> "drop", rec |-> <<>>, by |-> "none", f |-> first]
    ELSE IF first /\ ~parseStatus(l).err
    THEN [to |-> "converted", rec |-> parseStatus(l).kv,
          by |-> "parseStatus", f |-> FALSE]
    ELSE IF ~parsePair(l).err
    THEN [to |-> "converted", rec |-> parsePair(l).kv,
          by |-> "parsePair", f |-> first]
    ELSE [to |-> "notConverted", rec |-> <<l>>, by |-> "none", f |-> first]

\* as ClassifyTrimmed, but sending nothing for a line that is neither
ClassifyTrimmedDropsRaw(l, first) ==
    IF Len(l) < 4
    THEN [to |-> "drop", rec |-> <<>>, by |-> "none", f |-> first]
    ELSE IF first /\ ~parseStatus(l).err
    THEN [to |-> "converted", rec |-> parseStatus(l).kv,
          by |-> "parseStatus", f |-> FALSE]
    ELSE IF ~parsePair(l).err
    THEN [to |-> "converted", rec |-> parsePair(l).kv,
          by |-> "parsePair", f |-> FALSE]
    ELSE [to |-> "drop", rec |-> <<>>, by |-> "none", f |-> FALSE]

\* as ClassifyTrimmed, but clearing f before the length test
ClassifyTrimmedClearsFirst(l, first) ==
    IF Len(l) < 4
    THEN [to |-> "drop", rec |-> <<>>, by |-> "none", f |-> FALSE]
    ELSE IF first /\ ~parseStatus(l).err
    THEN [to |-> "converted", rec |-> parseStatus(l).kv,
          by |-> "parseStatus", f |-> FALSE]
    ELSE IF ~parsePair(l).err
    THEN [to |-> "converted", rec |-> parsePair(l).kv,
          by |-> "parsePair", f |-> FALSE]
    ELSE [to |-> "notConverted", rec |-> <<l>>, by |-> "none", f |-> FALSE]

\* One turn of the loop of createSenders on the text l0 that ReadString
\* returned, with the flag f: where the line goes, what is sent, the new f.
ClassifyTrimmed(l, first) ==
    IF Len(l) < 4
    THEN [to |-> "drop", rec |-> <<>>, by |-> "none", f |-> first]
    ELSE IF first /\ ~parseStatus(l).err
    THEN [to |-> "converted", rec |-> parseStatus(l).kv,
          by |-> "parseStatus", f |-> FALSE]
    ELSE IF ~parsePair(l).err
    THEN [to |-> "converted", rec |-> parsePair(l).kv,
          by |-> "parsePair", f |-> FALSE]
    ELSE [to |-> "notConverted", rec |-> <<l>>, by |-> "none", f |-> FALSE]

Classify(l0, first) ==
    LET body(l) == ClassifyTrimmed(l, first) IN Let(TrimRight(l0), body)

(***************************************************************************)
(* The lines the input stream is made of (without their "\n").             *)
(***************************************************************************)
LineStatus == <<"H"," ","2","0","0"," ","O","K">>
LinePairA  == <<"X","-","A","B",":"," ","v","1">>
LinePairB  == <<"x","/","a","b",":"," "," ","v","2">>
LineRawA   == <<"n","o","h","d","r">>
LineCont   == <<" ","a",":"," ","b">>
LineShort  == <<"a","b"," ","\r">>
LineCode   == <<"C","o","d","e",":"," ","9">>
LineRaw    == <<"R","a","w",":"," ","z","z">>
LineDate   == <<"D",":"," ","0","2","2"," ","1">>
LineDash   == <<"-",":"," ","v">>
LineSpaceStatus == <<" ","4","0","4"," ","x">>

Lines == {LineStatus, LinePairA, LinePairB, LineRawA, LineCont, LineShort,
          LineCode, LineRaw, LineDate, LineDash, LineSpaceStatus}

\* what may follow the last "\n" of the stream: nothing, or an unfinished line
Tails == {<<>>, <<"Y",":"," ","t","a","i","l">>}

\* bufio.Reader.ReadString('\n') on a complete line: the line and its "\n"
ReadString(line) == Append(line, "\n")

(***************************************************************************)
(* State.                                                                  *)
(***************************************************************************)
VARIABLES
    numWorker,           \* conv.numWorker: capacity of both channels
    rawHeader,           \* the complete lines read from conv.rawHeader so far
    tail,                \* the text the failing last read returned
    f,                   \* createSenders: "first retained line not yet seen"
    senderPc,            \* position of the goroutine of createSenders
    pending,             \* the record that goroutine is about to send
    convertedStream,     \* buffer of the channel convertedStream
    notConvertedStream,  \* buffer of the channel notConvertedStream
    closed,              \* which of the two channels are closed
    receiverPc,          \* position of each receiver goroutine of convert
    s,                   \* the record each receiver took and has not applied
    converted,           \* convert: the map converted
    notConveted,         \* convert: the slice notConveted
    wg,                  \* counter of the sync.WaitGroup
    mainPc,              \* position of the caller (Output -> convert)
    resp,                \* the object Output serialises, once it returned
    err,                 \* the error Output returned, once it returned
    sent                 \* history: every record sent, in order, per channel

vars == <<numWorker, rawHeader, tail, f, senderPc, pending, convertedStream,
          notConvertedStream, closed, receiverPc, s, converted, notConveted,
          wg, mainPc, resp, err, sent>>

Streams == {"converted", "notConverted"}
NoRecord == <<>>
EmptyMap == [k \in {} |-> <<>>]

\* values of the map: a string, or the []string stored under "raw"
StringValue(v) == <<"string", v>>
ArrayValue(a)  == <<"array", a>>

\* as MapSet, but an existing entry keeps its value
MapSetKeepFirst(m, k, v) ==
    [x \in DOMAIN m \cup {k} |-> IF x \in DOMAIN m THEN m[x] ELSE v]

\* m[k] = v on a Go map
MapSet(m, k, v) ==
    [x \in DOMAIN m \cup {k} |-> IF x = k THEN v ELSE m[x]]

Buffer(ch) == IF ch = "converted" THEN convertedStream ELSE notConvertedStream

Init ==
    /\ numWorker \in 0..MaxWorker
    /\ rawHeader = <<>>
    /\ tail = <<>>
    /\ f = TRUE
    /\ senderPc = "notStarted"
    /\ pending = NoRecord
    /\ convertedStream = <<>>
    /\ notConvertedStream = <<>>
    /\ closed = {}
    /\ receiverPc = [ch \in Streams |-> "notStarted"]
    /\ s = [ch \in Streams |-> NoRecord]
    /\ converted = EmptyMap
    /\ notConveted = <<>>
    /\ wg = 0
    /\ mainPc = "createSenders"
    /\ resp = EmptyMap
    /\ err = "none"
    /\ sent = [ch \in Streams |-> <<>>]

(***************************************************************************)
(* The caller: Output -> convert.                                          *)
(***************************************************************************)
\* convert: createSenders makes the channels and starts the sender goroutine
CreateSenders ==
    /\ mainPc = "createSenders"
    /\ senderPc' = "read"
    /\ mainPc' = "goConverted"
    /\ UNCHANGED <<numWorker, rawHeader, tail, f, pending, convertedStream,
                   notConvertedStream, closed, receiverPc, s, converted,
                   notConveted, wg, resp, err, sent>>

\* as GoReceiver, but without the wg.Add(1) of the second receiver
GoReceiverAddsOnce(ch) ==
    /\ mainPc = (IF ch = "converted" THEN "goConverted" ELSE "goNotConverted")
    /\ wg' = (IF ch = "converted" THEN wg + 1 ELSE wg)
    /\ receiverPc' = [receiverPc EXCEPT ![ch] = "range"]
    /\ mainPc' = (IF ch = "converted" THEN "goNotConverted" ELSE "wait")
    /\ UNCHANGED <<numWorker, rawHeader, tail, f, senderPc, pending,
                   convertedStream, notConvertedStream, closed, s, converted,
                   notConveted, resp, err, sent>>

\* convert: wg.Add(1); go receiver(stream, ...) for each stream in turn
GoReceiver(ch) ==
    /\ mainPc = (IF ch = "converted" THEN "goConverted" ELSE "goNotConverted")
    /\ wg' = wg + 1
    /\ receiverPc' = [receiverPc EXCEPT ![ch] = "range"]
    /\ mainPc' = (IF ch = "converted" THEN "goNotConverted" ELSE "wait")
    /\ UNCHANGED <<numWorker, rawHeader, tail, f, senderPc, pending,
                   convertedStream, notConvertedStream, closed, s, converted,
                   notConveted, resp, err, sent>>

\* as Wait, but returning while one receiver is still running
WaitForOne ==
    /\ mainPc = "wait"
    /\ wg <= 1
    /\ mainPc' = "output"
    /\ UNCHANGED <<numWorker, rawHeader, tail, f, senderPc, pending,
                   convertedStream, notConvertedStream, closed, receiverPc, s,
                   converted, notConveted, wg, resp, err, sent>>

\* convert: wg.Wait() returns, convert returns its two results to Output
Wait ==
    /\ mainPc = "wait"
    /\ wg = 0
    /\ mainPc' = "output"
    /\ UNCHANGED <<numWorker, rawHeader, tail, f, senderPc, pending,
                   convertedStream, notConvertedStream, closed, receiverPc, s,
                   converted, notConveted, wg, resp, err, sent>>

\* as OutputMap, but leaving an entry the map already has under "raw"
OutputMapKeepEntry(m, raw) ==
    IF Len(raw) > 0 /\ RawKey \notin DOMAIN m
    THEN [x \in DOMAIN m \cup {RawKey} |-> IF x = RawKey THEN ArrayValue(raw) ELSE m[x]]
    ELSE m

\* Output: store notConverted under "raw" when it is not empty, serialise
OutputMap(m, raw) ==
    IF Len(raw) > 0 THEN MapSet(m, RawKey, ArrayValue(raw)) ELSE m

\* as convertError, but reporting the lines that could not be classified
convertErrorOnRawLines(raw) ==
    IF Len(raw) > 0 THEN "cannot parse" ELSE "nil"

\* the error convert returns: always nil
convertError(raw) == "nil"

\* the error of json.Marshal: none for a map of strings and string arrays
MarshalError(m) ==
    IF \A k \in DOMAIN m : m[k][1] \in {"string", "array"}
    THEN "nil" ELSE "unsupported type"

\* Output: a convert error is returned with an empty string; otherwise the
\* map is serialised, the error of json.Marshal is dropped and nil returned
Output ==
    /\ mainPc = "output"
    /\ mainPc' = "done"
    /\ IF convertError(notConveted) # "nil"
       THEN /\ resp' = <<>>
            /\ err' = convertError(notConveted)
            /\ UNCHANGED converted
       ELSE /\ converted' = OutputMap(converted, notConveted)
            /\ resp' = converted'
            /\ err' = "nil"
    /\ UNCHANGED <<numWorker, rawHeader, tail, f, senderPc, pending,
                   convertedStream, notConvertedStream, closed, receiverPc, s,
                   notConveted, wg, sent>>

(***************************************************************************)
(* The sender goroutine of createSenders.                                  *)
(***************************************************************************)
\* one turn of the loop: ReadString returns a complete line, which is
\* trimmed and dropped, or classified; the send itself is Send below
ReadLine(line) ==
    /\ senderPc = "read"
    /\ Len(rawHeader) < MaxLines
    /\ rawHeader' = Append(rawHeader, line)
    /\ \E c \in {Classify(ReadString(line), f)} :
           /\ f' = c.f
           /\ pending' = c.rec
           /\ senderPc' = (IF c.to = "drop" THEN "read"
                           ELSE IF c.to = "converted" THEN "sendConverted"
                           ELSE "sendNotConverted")
    /\ UNCHANGED <<numWorker, tail, convertedStream, notConvertedStream,
                   closed, receiverPc, s, converted, notConveted, wg, mainPc,
                   resp, err, sent>>

\* as ReadError, but classifying the text that came with the error
ReadErrorClassifiesTail(rest) ==
    /\ senderPc = "read"
    /\ tail' = rest
    /\ \E c \in {Classify(rest, f)} :
           /\ f' = c.f
           /\ pending' = c.rec
           /\ senderPc' = (IF c.to = "drop" THEN "closeNotConverted"
                           ELSE IF c.to = "converted" THEN "sendConverted"
                           ELSE "sendNotConverted")
    /\ UNCHANGED <<numWorker, rawHeader, convertedStream, notConvertedStream,
                   closed, receiverPc, s, converted, notConveted, wg, mainPc,
                   resp, err, sent>>

\* ReadString returns an error (end of input): break, whatever text came
\* with the error
ReadError(rest) ==
    /\ senderPc = "read"
    /\ tail' = rest
    /\ senderPc' = "closeNotConverted"
    /\ UNCHANGED <<numWorker, rawHeader, f, pending, convertedStream,
                   notConvertedStream, closed, receiverPc, s, converted,
                   notConveted, wg, mainPc, resp, err, sent>>

\* stream <- kv.  A channel of capacity 0 hands the record to the receiver
\* waiting in its range loop; otherwise the record enters the buffer when
\* there is room.
Send(ch) ==
    /\ senderPc = (IF ch = "converted" THEN "sendConverted" ELSE "sendNotConverted")
    /\ IF Len(Buffer(ch)) < numWorker
       THEN /\ convertedStream' = (IF ch = "converted"
                                   THEN Append(convertedStream, pending)
                                   ELSE convertedStream)
            /\ notConvertedStream' = (IF ch = "notConverted"
                                      THEN Append(notConvertedStream, pending)
                                      ELSE notConvertedStream)
            /\ UNCHANGED <<receiverPc, s>>
       ELSE /\ numWorker = 0
            /\ receiverPc[ch] = "range"
            /\ s' = [s EXCEPT ![ch] = pending]
            /\ receiverPc' = [receiverPc EXCEPT ![ch] = "call"]
            /\ UNCHANGED <<convertedStream, notConvertedStream>>
    /\ sent' = [sent EXCEPT ![ch] = Append(@, pending)]
    /\ pending' = NoRecord
    /\ senderPc' = "read"
    /\ UNCHANGED <<numWorker, rawHeader, tail, f, closed, converted,
                   notConveted, wg, mainPc, resp, err>>

\* the deferred calls run last-in first-out: close(notConvertedStream) ...
CloseNotConverted ==
    /\ senderPc = "closeNotConverted"
    /\ closed' = closed \cup {"notConverted"}
    /\ senderPc' = "closeConverted"
    /\ UNCHANGED <<numWorker, rawHeader, tail, f, pending, convertedStream,
                   notConvertedStream, receiverPc, s, converted, notConveted,
                   wg, mainPc, resp, err, sent>>

\* as CloseConverted, but returning without closing the channel
CloseConvertedSkipped ==
    /\ senderPc = "closeConverted"
    /\ senderPc' = "done"
    /\ UNCHANGED <<numWorker, rawHeader, tail, f, pending, convertedStream,
                   notConvertedStream, closed, receiverPc, s, converted,
                   notConveted, wg, mainPc, resp, err, sent>>

\* ... then close(convertedStream)
CloseConverted ==
    /\ senderPc = "closeConverted"
    /\ closed' = closed \cup {"converted"}
    /\ senderPc' = "done"
    /\ UNCHANGED <<numWorker, rawHeader, tail, f, pending, convertedStream,
                   notConvertedStream, receiverPc, s, converted, notConveted,
                   wg, mainPc, resp, err, sent>>

(***************************************************************************)
(* The receiver goroutines of convert.                                     *)
(***************************************************************************)
\* for s := range stream: take the oldest buffered record
Receive(ch) ==
    /\ receiverPc[ch] = "range"
    /\ Buffer(ch) # <<>>
    /\ s' = [s EXCEPT ![ch] = Head(Buffer(ch))]
    /\ convertedStream' = (IF ch = "converted" THEN Tail(convertedStream)
                           ELSE convertedStream)
    /\ notConvertedStream' = (IF ch = "notConverted" THEN Tail(notConvertedStream)
                              ELSE notConvertedStream)
    /\ receiverPc' = [receiverPc EXCEPT ![ch] = "call"]
    /\ UNCHANGED <<numWorker, rawHeader, tail, f, senderPc, pending, closed,
                   converted, notConveted, wg, mainPc, resp, err, sent>>

\* as Call, but putting a raw line in front of the slice
CallPrepend(ch) ==
    /\ receiverPc[ch] = "call"
    /\ converted' = (IF ch = "converted"
                     THEN MapSet(converted, s[ch][1], StringValue(s[ch][2]))
                     ELSE converted)
    /\ notConveted' = (IF ch = "notConverted"
                       THEN <<s[ch][1]>> \o notConveted
                       ELSE notConveted)
    /\ s' = [s EXCEPT ![ch] = NoRecord]
    /\ receiverPc' = [receiverPc EXCEPT ![ch] = "range"]
    /\ UNCHANGED <<numWorker, rawHeader, tail, f, senderPc, pending,
                   convertedStream, notConvertedStream, closed, wg, mainPc,
                   resp, err, sent>>

\* receiver(s...): converted[s[0]] = s[1], or notConveted = append(...)
Call(ch) ==
    /\ receiverPc[ch] = "call"
    /\ converted' = (IF ch = "converted"
                     THEN MapSet(converted, s[ch][1], StringValue(s[ch][2]))
                     ELSE converted)
    /\ notConveted' = (IF ch = "notConverted"
                       THEN Append(notConveted, s[ch][1])
                       ELSE notConveted)
    /\ s' = [s EXCEPT ![ch] = NoRecord]
    /\ receiverPc' = [receiverPc EXCEPT ![ch] = "range"]
    /\ UNCHANGED <<numWorker, rawHeader, tail, f, senderPc, pending,
                   convertedStream, notConvertedStream, closed, wg, mainPc,
                   resp, err, sent>>

\* the range loop ends on a closed and drained channel; deferred wg.Done()
Done(ch) ==
    /\ receiverPc[ch] = "range"
    /\ Buffer(ch) = <<>>
    /\ ch \in closed
    /\ receiverPc' = [receiverPc EXCEPT ![ch] = "done"]
    /\ wg' = wg - 1
    /\ UNCHANGED <<numWorker, rawHeader, tail, f, senderPc, pending,
                   convertedStream, notConvertedStream, closed, s, converted,
                   notConveted, mainPc, resp, err, sent>>

Next ==
    \/ CreateSenders
    \/ \E ch \in Streams : GoReceiver(ch)
    \/ Wait
    \/ Output
    \/ \E line \in Lines : ReadLine(line)
    \/ \E rest \in Tails : ReadError(rest)
    \/ \E ch \in Streams : Send(ch)
    \/ CloseNotConverted
    \/ CloseConverted
    \/ \E ch \in Streams : Receive(ch)
    \/ \E ch \in Streams : Call(ch)
    \/ \E ch \in Streams : Done(ch)

Spec == Init /\ [][Next]_vars

\* The steps of each goroutine.  The Go scheduler lets every goroutine that
\* can run make progress, and a finite input makes every read return.
Main == CreateSenders \/ (\E ch \in Streams : GoReceiver(ch)) \/ Wait \/ Output
Sender ==
    \/ \E line \in Lines : ReadLine(line)
    \/ \E rest \in Tails : ReadError(rest)
    \/ \E ch \in Streams : Send(ch)
    \/ CloseNotConverted
    \/ CloseConverted
Receiver(ch) == Receive(ch) \/ Call(ch) \/ Done(ch)

FairSpec ==
    /\ Spec
    /\ WF_vars(Main)
    /\ WF_vars(Sender)
    /\ \A ch \in Streams : WF_vars(Receiver(ch))

(***************************************************************************)
(* The input as the classifier sees it, line by line.                      *)
(***************************************************************************)
Trimmed(i) == TrimRight(ReadString(rawHeader[i]))
Retained(i) == Len(Trimmed(i)) >= 4
FirstRetained(i) == Retained(i) /\ \A j \in 1..(i - 1) : ~Retained(j)
TakenAsStatus(i) == FirstRetained(i) /\ statusPatternMatches(Trimmed(i))
TakenAsPair(i) ==
    /\ Retained(i)
    /\ ~TakenAsStatus(i)
    /\ Trimmed(i)[1] # " "
    /\ pairPatternMatches(Trimmed(i))
Unclassifiable(i) == Retained(i) /\ ~TakenAsStatus(i) /\ ~TakenAsPair(i)

\* the unclassifiable lines among the first i lines, in input order
RECURSIVE RawLinesUpTo(_)
RawLinesUpTo(i) ==
    IF i = 0 THEN <<>>
    ELSE IF Unclassifiable(i) THEN Append(RawLinesUpTo(i - 1), Trimmed(i))
    ELSE RawLinesUpTo(i - 1)
RawLines == RawLinesUpTo(Len(rawHeader))

\* the records of a channel's history applied in order to an empty map
RECURSIVE ApplyAll(_)
ApplyAll(recs) ==
    IF recs = <<>> THEN EmptyMap
    ELSE LET r == recs[Len(recs)]
         IN  MapSet(ApplyAll(SubSeq(recs, 1, Len(recs) - 1)), r[1], StringValue(r[2]))

ConvertReturned == mainPc \in {"output", "done"}

(***************************************************************************)
(* C1: for every finite input and every channel capacity, under fair       *)
(* scheduling the conversion finishes: the sender closes both channels,    *)
(* both receivers return, and the caller's wg.Wait() returns.              *)
(***************************************************************************)
AllFinished ==
    /\ senderPc = "done"
    /\ closed = Streams
    /\ \A ch \in Streams : receiverPc[ch] = "done"
    /\ mainPc = "done"

C1_ConversionTerminates == <>AllFinished

\* finished on unbuffered channels after sending on both of them
C1_Witness ==
    /\ AllFinished
    /\ numWorker = 0
    /\ sent["converted"] # <<>>
    /\ sent["notConverted"] # <<>>

(***************************************************************************)
(* C2: when convert has returned, every record sent on either channel has  *)
(* been received and applied; none is pending, buffered or in a receiver's *)
(* hands.                                                                  *)
(***************************************************************************)
C2_AllAppliedAtReturn ==
    ConvertReturned =>
        /\ senderPc = "done"
        /\ pending = NoRecord
        /\ convertedStream = <<>>
        /\ notConvertedStream = <<>>
        /\ \A ch \in Streams : s[ch] = NoRecord /\ receiverPc[ch] = "done"
        /\ notConveted = [i \in 1..Len(sent["notConverted"]) |->
                              sent["notConverted"][i][1]]
        /\ mainPc = "output" => converted = ApplyAll(sent["converted"])
        /\ mainPc = "done" =>
               resp = OutputMap(ApplyAll(sent["converted"]), notConveted)

\* convert returned after two records went through each channel's receiver
C2_Witness ==
    /\ mainPc = "output"
    /\ Len(sent["converted"]) >= 2
    /\ Len(sent["notConverted"]) >= 1
    /\ numWorker = 1

(***************************************************************************)
(* Header lines of the input: well-formed "Key: Value" lines.              *)
(***************************************************************************)
PairLine(i) ==
    Retained(i) /\ Trimmed(i)[1] # " " /\ pairPatternMatches(Trimmed(i))
KeyOf(i) == createJsonKey(pairKey(Trimmed(i)))
ValueOf(i) == pairValue(Trimmed(i))
InputLines == 1..Len(rawHeader)
SameKey(i) == {j \in InputLines : PairLine(j) /\ KeyOf(j) = KeyOf(i)}
Largest(S) == CHOOSE x \in S : \A y \in S : y <= x

(***************************************************************************)
(* C3: when two or more header lines normalise to the same key, the        *)
(* mapping convert returns has that key with the value of the occurrence   *)
(* that is last in the input, whatever the interleaving; Output keeps it   *)
(* (the key "raw" aside, which Output itself may assign).                  *)
(***************************************************************************)
LastOccurrenceWins(m, assignedLater) ==
    \A i \in InputLines :
        (PairLine(i) /\ Cardinality(SameKey(i)) >= 2 /\ i = Largest(SameKey(i))
            /\ KeyOf(i) \notin assignedLater)
        => /\ KeyOf(i) \in DOMAIN m
           /\ m[KeyOf(i)] = StringValue(ValueOf(i))

C4_RawLinesInInputOrder ==
    /\ Len(notConveted) <= Len(RawLines)
    /\ notConveted = SubSeq(RawLines, 1, Len(notConveted))
    /\ ConvertReturned => notConveted = RawLines

\* two different raw lines and a classified record went through
C4_Witness ==
    /\ mainPc = "output"
    /\ Len(notConveted) = 2
    /\ notConveted[1] # notConveted[2]
    /\ converted # EmptyMap

(***************************************************************************)
(* C5 as stated: the number of raw lines equals the number of retained     *)
(* lines that matched neither the status pattern (first retained line      *)
(* only) nor the pair pattern.                                             *)
(***************************************************************************)
MatchesNeitherPattern(i) ==
    /\ Retained(i)
    /\ ~TakenAsStatus(i)
    /\ ~pairPatternMatches(Trimmed(i))

C5_RawCountIsUnmatchedCount ==
    ConvertReturned =>
        Len(notConveted) = Cardinality({i \in InputLines : MatchesNeitherPattern(i)})

(***************************************************************************)
(* C5 amended: the number of raw lines equals the number of retained lines *)
(* that were neither taken as the status line nor accepted by parsePair    *)
(* (first character not a space, and the pair pattern matches); each such  *)
(* line is in the raw list as trimmed, and the keys of the mapping come    *)
(* from the other retained lines only.                                     *)
(***************************************************************************)
ClassifiedKeys ==
    {CodeKey : i \in {j \in InputLines : TakenAsStatus(j)}}
        \cup {KeyOf(i) : i \in {j \in InputLines : TakenAsPair(j)}}

C5_RawCountIsUnclassifiedCount ==
    ConvertReturned =>
        /\ Len(notConveted) = Cardinality({i \in InputLines : Unclassifiable(i)})
        /\ \A i \in InputLines :
               Unclassifiable(i) =>
                   \E j \in 1..Len(notConveted) : notConveted[j] = Trimmed(i)
        /\ mainPc = "output" => DOMAIN converted = ClassifiedKeys

\* a line that matches the pair pattern went to the raw list
C5_Witness ==
    /\ mainPc = "output"
    /\ \E i \in InputLines :
           /\ Unclassifiable(i)
           /\ pairPatternMatches(Trimmed(i))
           /\ notConveted[Len(notConveted)] = Trimmed(i)
    /\ \E i \in InputLines : MatchesNeitherPattern(i)

(***************************************************************************)
(* C6: for an input whose first retained line is a status line, followed   *)
(* by well-formed header lines with distinct keys, Output returns exactly  *)
(* "code" = the status code plus one entry per header line, and no "raw".  *)
(***************************************************************************)
\* a status line such as "HTTP/1.1 200 OK": it has the three digits, the
\* space and the message, and is not itself a header line
StatusLine(i) == statusPatternMatches(Trimmed(i)) /\ ~PairLine(i)

StatusThenDistinctHeaders ==
    /\ tail = <<>>
    /\ \E i \in InputLines : FirstRetained(i) /\ StatusLine(i)
    /\ \A i \in InputLines : (Retained(i) /\ ~FirstRetained(i)) => PairLine(i)
    /\ \A i, j \in InputLines :
           (PairLine(i) /\ PairLine(j) /\ i # j) => KeyOf(i) # KeyOf(j)

C6_StatusAndHeadersScenario ==
    (mainPc = "done" /\ StatusThenDistinctHeaders) =>
        /\ CodeKey \in DOMAIN resp
        /\ \A i \in InputLines :
               FirstRetained(i) => resp[CodeKey] = StringValue(statusCode(Trimmed(i)))
        /\ \A i \in InputLines :
               PairLine(i) => /\ KeyOf(i) \in DOMAIN resp
                              /\ resp[KeyOf(i)] = StringValue(ValueOf(i))
        /\ Cardinality(DOMAIN resp) =
               1 + Cardinality({i \in InputLines : PairLine(i)})
        /\ RawKey \notin DOMAIN resp

(***************************************************************************)
(* C7: when the raw-lines list is not empty once both channels are         *)
(* drained, the object Output serialises has the key "raw" and its value   *)
(* is that list, also when a header line of the input normalised to "raw". *)
(***************************************************************************)
C7_RawKeyHoldsRawLines ==
    (mainPc = "done" /\ notConveted # <<>>) =>
        /\ RawKey \in DOMAIN resp
        /\ resp[RawKey] = ArrayValue(notConveted)
        /\ resp[RawKey] = ArrayValue(RawLines)

\* a header line "Raw: ..." was applied and a raw line was collected
C7_Witness ==
    /\ mainPc = "done"
    /\ notConveted # <<>>
    /\ \E i \in 1..Len(sent["converted"]) : sent["converted"][i][1] = RawKey
    /\ resp[RawKey] = ArrayValue(notConveted)

(***************************************************************************)
(* C8: the key "code" is in the output only if a status line was found,    *)
(* and its value is then the status code of that line.                     *)
(***************************************************************************)
C8_CodeOnlyFromStatusLine ==
    (mainPc = "done" /\ CodeKey \in DOMAIN resp) =>
        \E i \in InputLines :
            /\ TakenAsStatus(i)
            /\ resp[CodeKey] = StringValue(statusCode(Trimmed(i)))

(***************************************************************************)
(* C9: the key "raw" is in the output only if some retained line was       *)
(* unclassifiable, and its value is then an array of strings.              *)
(***************************************************************************)
C9_RawOnlyFromUnclassifiable ==
    (mainPc = "done" /\ RawKey \in DOMAIN resp) =>
        /\ \E i \in InputLines : Unclassifiable(i)
        /\ resp[RawKey][1] = "array"

(***************************************************************************)
(* C10: reading a line shorter than 4 characters after trimming changes    *)
(* nothing but the position in the input: nothing is sent or pending, the  *)
(* mapping and the raw list are untouched, and f keeps its value.          *)
(***************************************************************************)
ShortLineRead(line) ==
    /\ rawHeader' = Append(rawHeader, line)
    /\ Len(TrimRight(ReadString(line))) < 4

C10_ShortLineDropped ==
    [][\A line \in Lines :
           ShortLineRead(line) =>
               UNCHANGED <<numWorker, tail, f, senderPc, pending,
                           convertedStream, notConvertedStream, closed,
                           receiverPc, s, converted, notConveted, wg, mainPc,
                           resp, err, sent>>]_vars

\* a short first line was dropped and the next line was still taken as the
\* status line
C10_Witness ==
    /\ Len(rawHeader) >= 2
    /\ ~Retained(1)
    /\ TakenAsStatus(2)
    /\ sent["converted"] # <<>>
    /\ sent["converted"][1][1] = CodeKey
    /\ sent["notConverted"] = <<>>

(***************************************************************************)
(* What the sender has emitted: the records sent on a channel, and the     *)
(* record it is blocked sending, if any.                                   *)
(***************************************************************************)
LastLine == Len(rawHeader)
Sending(ch) ==
    senderPc = (IF ch = "converted" THEN "sendConverted" ELSE "sendNotConverted")
Emitted(ch) == IF Sending(ch) THEN Append(sent[ch], pending) ELSE sent[ch]

(***************************************************************************)
(* C11: a retained line that begins with a space is never emitted as a     *)
(* pair record, even when it matches the pair pattern: what goes to the    *)
(* classified channel for such a line can only be the status record of the *)
(* first retained line, and otherwise the line is emitted as it is on the  *)
(* raw channel.                                                            *)
(***************************************************************************)
LeadingSpace(i) == Retained(i) /\ Trimmed(i)[1] = " "

C11_LeadingSpaceNeverPair ==
    /\ (Sending("converted") /\ LeadingSpace(LastLine)) =>
           /\ TakenAsStatus(LastLine)
           /\ pending = <<CodeKey, statusCode(Trimmed(LastLine))>>
    /\ \A i \in InputLines :
           (LeadingSpace(i) /\ ~TakenAsStatus(i)) =>
               \E j \in 1..Len(Emitted("notConverted")) :
                   Emitted("notConverted")[j] = <<Trimmed(i)>>

\* a first line " 404 x" gave the status record, and a later line
\* " key: value" is in the raw list of the result
C11_Witness ==
    /\ mainPc = "done"
    /\ rawHeader # <<>>
    /\ LeadingSpace(1) /\ TakenAsStatus(1)
    /\ CodeKey \in DOMAIN resp
    /\ RawKey \in DOMAIN resp
    /\ \E i \in InputLines :
           /\ LeadingSpace(i)
           /\ ~FirstRetained(i)
           /\ pairPatternMatches(Trimmed(i))
           /\ resp[RawKey] = ArrayValue(<<Trimmed(i)>>)

(***************************************************************************)
(* C12 as stated: key normalisation is idempotent on normalised keys: for  *)
(* every header key k, createJsonKey(createJsonKey(k)) = createJsonKey(k). *)
(***************************************************************************)
C12_NormalizationIdempotent ==
    \A i \in InputLines :
        TakenAsPair(i) =>
            /\ \E j \in 1..Len(Emitted("converted")) :
                   Emitted("converted")[j][1] = KeyOf(i)
            /\ createJsonKey(KeyOf(i)) = KeyOf(i)

(***************************************************************************)
(* C12 amended: normalisation is idempotent on single-word keys, those     *)
(* without "-", "/" or space: createJsonKey(createJsonKey(k)) =            *)
(* createJsonKey(k).  For the other keys normalising again lower-cases the *)
(* capitals inside: createJsonKey(createJsonKey(k)) is createJsonKey(k) in *)
(* lower case (xAb -> xab, contentType -> contenttype).                    *)
(***************************************************************************)
SingleWord(key) == \A n \in 1..Len(key) : key[n] \notin {"-", "/", " "}

C12_RenormalizationLowercases ==
    \A i \in InputLines :
        TakenAsPair(i) =>
            /\ \E j \in 1..Len(Emitted("converted")) :
                   Emitted("converted")[j][1] = KeyOf(i)
            /\ SingleWord(pairKey(Trimmed(i))) =>
                   createJsonKey(KeyOf(i)) = KeyOf(i)
            /\ createJsonKey(KeyOf(i)) = ToLower(KeyOf(i))

\* a single-word header and a two-word header were both normalised and sent
C12_Witness ==
    /\ senderPc = "done"
    /\ \E i, j \in InputLines :
           /\ TakenAsPair(i) /\ TakenAsPair(j)
           /\ SingleWord(pairKey(Trimmed(i)))
           /\ KeyOf(i) # <<>>
           /\ ~SingleWord(pairKey(Trimmed(j)))
           /\ createJsonKey(KeyOf(j)) # KeyOf(j)
           /\ Len(sent["converted"]) >= 2

Goroutines == Streams \cup {"main"}

\* the goroutines whose next step reads or writes the structure
Accessors(structure) ==
    {g \in Goroutines :
        IF g = "main" THEN mainPc = "output"
        ELSE g = structure /\ receiverPc[g] = "call"}

\* the receivers that have been started and have not returned
Running == {ch \in Streams : receiverPc[ch] \in {"range", "call"}}

NoConcurrentAccess ==
    /\ \A structure \in Streams : Cardinality(Accessors(structure)) <= 1
    /\ mainPc = "output" => Running = {}
    /\ mainPc = "done" => Running = {}

SingleWriter ==
    /\ converted' # converted =>
           \/ /\ receiverPc["converted"] = "call"
              /\ receiverPc'["converted"] = "range"
              /\ mainPc \notin {"output", "done"}
           \/ /\ mainPc = "output" /\ mainPc' = "done"
              /\ Running = {}
    /\ notConveted' # notConveted =>
           /\ receiverPc["notConverted"] = "call"
           /\ receiverPc'["notConverted"] = "range"
           /\ mainPc \notin {"output", "done"}

C14_NoConcurrentAccess == [](NoConcurrentAccess) /\ [][SingleWriter]_vars

\* both receivers are about to write, each its own structure, while the
\* caller is blocked in wg.Wait()
C14_Witness ==
    /\ mainPc = "wait"
    /\ wg = 2
    /\ Accessors("converted") = {"converted"}
    /\ Accessors("notConverted") = {"notConverted"}

(***************************************************************************)
(* C15: for an empty input, and for an input whose lines are all shorter   *)
(* than 4 characters after trimming, nothing is sent on either channel and *)
(* Output returns the empty map, without a raw key, and a nil error.       *)
(***************************************************************************)
NothingRetained == \A i \in InputLines : ~Retained(i)

C15_EmptyInputGivesEmptyObject ==
    NothingRetained =>
        /\ \A ch \in Streams : Emitted(ch) = <<>>
        /\ converted = EmptyMap /\ notConveted = <<>>
        /\ mainPc = "done" =>
               /\ resp = EmptyMap
               /\ RawKey \notin DOMAIN resp
               /\ err = "nil"

\* Output returned for an input of two short lines
C15_Witness ==
    /\ mainPc = "done"
    /\ Len(rawHeader) = 2
    /\ NothingRetained
    /\ \A i \in InputLines : Len(Trimmed(i)) > 0
    /\ resp = EmptyMap

(***************************************************************************)
(* C16: parseStatus is tried on exactly one line of a conversion, the      *)
(* first retained line, whether or not it matches: f is cleared by that    *)
(* line, at most one record comes from parseStatus and it is the first     *)
(* record on convertedStream, and every later line is classified by        *)
(* parsePair alone, even when the first retained line was not a status.    *)
(***************************************************************************)
\* the records createSenders sends on convertedStream for the first i lines
RECURSIVE ClassifiedUpTo(_)
ClassifiedUpTo(i) ==
    IF i = 0 THEN <<>>
    ELSE IF TakenAsStatus(i)
    THEN Append(ClassifiedUpTo(i - 1), <<CodeKey, statusCode(Trimmed(i))>>)
    ELSE IF TakenAsPair(i)
    THEN Append(ClassifiedUpTo(i - 1), <<KeyOf(i), ValueOf(i)>>)
    ELSE ClassifiedUpTo(i - 1)

C16_StatusTriedOnFirstRetainedOnly ==
    /\ f <=> (\A i \in InputLines : ~Retained(i))
    /\ Emitted("converted") = ClassifiedUpTo(LastLine)
    /\ Cardinality({i \in InputLines : TakenAsStatus(i)}) <= 1
    /\ \A i \in InputLines :
           TakenAsStatus(i) =>
               Emitted("converted")[1] = <<CodeKey, statusCode(Trimmed(i))>>
    /\ \A i \in InputLines :
           (Retained(i) /\ ~FirstRetained(i) /\ ~TakenAsPair(i)) =>
               \E j \in 1..Len(Emitted("notConverted")) :
                   Emitted("notConverted")[j] = <<Trimmed(i)>>

\* the first retained line was not a status line and a later line that
\* matches statusPattern has been sent
C16_Witness ==
    /\ senderPc = "done"
    /\ \E i, j \in InputLines :
           /\ i < j
           /\ FirstRetained(i)
           /\ ~statusPatternMatches(Trimmed(i))
           /\ Retained(j)
           /\ statusPatternMatches(Trimmed(j))
           /\ ~pairPatternMatches(Trimmed(j))
           /\ Len(sent["notConverted"]) >= 1

(***************************************************************************)
(* C17: when the first retained line is a well-formed "Key: Value" header  *)
(* (the input has no status line), that line is sent as the pair record    *)
(* <<normalised key, value>> and is the first record on convertedStream,   *)
(* whatever its value (digits, dates, lengths): no record comes from       *)
(* parseStatus.                                                            *)
(***************************************************************************)
C17_FirstHeaderFallsThroughToPair ==
    \A i \in InputLines :
        (FirstRetained(i) /\ PairLine(i)) =>
            /\ Emitted("converted") # <<>>
            /\ Emitted("converted")[1] = <<KeyOf(i), ValueOf(i)>>

(***************************************************************************)
(* C18: no record with an empty key or an empty value is sent on           *)
(* convertedStream, and the map Output returns has no empty key: a line    *)
(* whose key normalises to nothing goes to notConvertedStream.             *)
(***************************************************************************)
C18_NoEmptyKeyOrValue ==
    /\ \A j \in 1..Len(Emitted("converted")) :
           /\ Emitted("converted")[j][1] # <<>>
           /\ Emitted("converted")[j][2] # <<>>
    /\ <<>> \notin DOMAIN converted
    /\ mainPc = "done" => <<>> \notin DOMAIN resp

(***************************************************************************)
(* C19: every retained line (trimmed length >= 4) is sent exactly once, on *)
(* exactly one channel: the records sent on convertedStream plus those     *)
(* sent on notConvertedStream number the retained lines, a line taken as   *)
(* status or pair is on convertedStream only and any other retained line   *)
(* on notConvertedStream only; a line that is not retained sends nothing.  *)
(***************************************************************************)
RetainedLines == {i \in InputLines : Retained(i)}

\* the raw lines as the records sent on notConvertedStream
RawRecords == [j \in 1..Len(RawLines) |-> <<RawLines[j]>>]

C19_OneEmissionPerRetainedLine ==
    /\ Len(Emitted("converted")) + Len(Emitted("notConverted"))
           = Cardinality(RetainedLines)
    /\ Len(Emitted("converted"))
           = Cardinality({i \in InputLines : TakenAsStatus(i) \/ TakenAsPair(i)})
    /\ Len(Emitted("notConverted"))
           = Cardinality({i \in InputLines : Unclassifiable(i)})
    /\ (rawHeader # <<>> /\ (Sending("converted") \/ Sending("notConverted"))) =>
           /\ Retained(LastLine)
           /\ Sending("converted") <=>
                  (TakenAsStatus(LastLine) \/ TakenAsPair(LastLine))
           /\ Sending("notConverted") <=> Unclassifiable(LastLine)
    /\ senderPc \in {"closeNotConverted", "closeConverted", "done"} =>
           Len(sent["converted"]) + Len(sent["notConverted"])
               = Cardinality(RetainedLines)

\* a short line, a line sent on convertedStream and a line sent on
\* notConvertedStream have been read and the sender has returned
C19_Witness ==
    /\ senderPc = "done"
    /\ Len(rawHeader) = 3
    /\ Cardinality(RetainedLines) = 2
    /\ Len(sent["converted"]) = 1
    /\ Len(sent["notConverted"]) = 1

(***************************************************************************)
(* C20: the sender stops at the first read that returns an error (EOF      *)
(* included) and does not classify the text returned with it: the text     *)
(* after the last newline is sent on neither channel and is in neither the *)
(* map nor the raw slice, the lines read before are all processed, and     *)
(* both channels are closed.                                               *)
(***************************************************************************)
Stopped == senderPc \in {"closeNotConverted", "closeConverted", "done"}

TailNowhere ==
    /\ Emitted("converted") = ClassifiedUpTo(LastLine)
    /\ Emitted("notConverted") = RawRecords
    /\ Stopped => /\ sent["converted"] = ClassifiedUpTo(LastLine)
                  /\ sent["notConverted"] = RawRecords
    /\ senderPc = "done" => closed = Streams
    /\ mainPc = "output" => converted = ApplyAll(ClassifiedUpTo(LastLine))
    /\ ConvertReturned => notConveted = RawLines
    /\ mainPc = "done" =>
           resp = OutputMap(ApplyAll(ClassifiedUpTo(LastLine)), RawLines)
    /\ ~Stopped => tail = <<>>

StopsAtReadError ==
    /\ (senderPc = "read" /\ tail' # tail) =>
           /\ senderPc' = "closeNotConverted"
           /\ UNCHANGED <<rawHeader, f, pending, sent, convertedStream,
                          notConvertedStream, closed, converted, notConveted>>
    /\ Stopped =>
           /\ Stopped'
           /\ UNCHANGED <<rawHeader, tail, f, pending, sent>>

C20_ReadErrorStops == [](TailNowhere) /\ [][StopsAtReadError]_vars

\* Output returned for an input of terminated lines followed by a header
\* line without terminator
C20_Witness ==
    /\ mainPc = "done"
    /\ closed = Streams
    /\ rawHeader # <<>>
    /\ tail # <<>>
    /\ pairPatternMatches(tail)
    /\ resp # EmptyMap
    /\ createJsonKey(pairKey(tail)) \notin DOMAIN resp

====
